---- MODULE Spec2Model ----
(***************************************************************************)
(* Dependency wiring of sciluigi: TaskInput / SubWorkflowOutput slots,     *)
(* TargetInfo artifacts, and the requires()/output() queries of            *)
(* DependencyHelpers, SubWorkflowTask and WorkflowTask.                    *)
(***************************************************************************)
EXTENDS Naturals, FiniteSets, Sequences, TLC

\* ------------------------------------------------------------------------
\* The objects of the modelled workflow
\* ------------------------------------------------------------------------

\* Bounds on the number of connect/disconnect calls of the construction phase.
MaxCalls == 3
MaxWire == 4

\* TaskInput instances; "S" is the SubWorkflowOutput created by task "T", "S2"
\* the one created by the nested sub-workflow task "T2".
PlainSlots == {"X", "Y", "Z"}
Boundaries == {"S", "S2"}
Slots == PlainSlots \cup Boundaries
\* The slots wired in the specifications of one sub-workflow.
WiredSlots == PlainSlots \cup {"S"}

\* SubWorkflowOutput.__init__(sub_workflow_task): the task that created it.
BoundaryOwner == [b \in Boundaries |-> IF b = "S" THEN "T" ELSE "T2"]

\* TargetInfo instances with their task and path fields.  a1 and a2 name
\* the same path from different tasks, a1 and a3 come from the same task.
Infos == {"a1", "a2", "a3"}
\* The TargetInfos wired in the specifications over all four slots.
WiredInfos == {"a1", "a2"}
InfoTask == [a \in Infos |-> CASE a = "a1" -> "P1" [] a = "a2" -> "P2" [] OTHER -> "P1"]
InfoPath == [a \in Infos |-> CASE a = "a1" -> "f" [] a = "a2" -> "f" [] OTHER -> "g"]
\* TargetInfo.target: one luigi target object per TargetInfo.
InfoTarget == [a \in Infos |-> <<"target", a>>]

VARIABLES
    target_infos,        \* TaskInput.target_infos, per slot
    downstream_inputs,   \* TaskInput.downstream_inputs, per slot
    sub_workflow_tasks,  \* TaskInput._sub_workflow_tasks, per slot
    sub_workflow_reqs,   \* SubWorkflowOutput.sub_workflow_reqs, per boundary
    task_dict,           \* the attributes (__dict__) of each task, in iteration order
    ncalls,              \* connect/disconnect calls issued so far
    last,                \* the last call: operation, receiver, argument, result
    edges,               \* the connections declared so far, as <<source, slot>> pairs
    asym,                \* whether a TargetInfo was connected to a slot that had downstream slots
    config,              \* the configuration of an orchestrating task: its progress
    stack                \* the frames of the connect call in progress, innermost last

vars == <<target_infos, downstream_inputs, sub_workflow_tasks, sub_workflow_reqs,
          task_dict, ncalls, last, edges, asym, config, stack>>

\* The slot objects as one record, as the methods read and write them.
Heap == [ti |-> target_infos, di |-> downstream_inputs,
         swt |-> sub_workflow_tasks, reqs |-> sub_workflow_reqs]

\* TaskInput.__init__ and SubWorkflowOutput.__init__
EmptyHeap == [ti |-> [s \in Slots |-> {}],
              di |-> [s \in Slots |-> {}],
              swt |-> [s \in Slots |-> IF s \in Boundaries THEN {BoundaryOwner[s]} ELSE {}],
              reqs |-> [s \in Boundaries |-> {}]]

\* ------------------------------------------------------------------------
\* Views of a slot
\* ------------------------------------------------------------------------

\* TaskInput.targets
targets(h, s) == {InfoTarget[i] : i \in h.ti[s]}

\* TaskInput.paths
paths(h, s) == {InfoPath[i] : i \in h.ti[s]}

\* SubWorkflowOutput.task: the first (only) element of _sub_workflow_tasks
BoundaryTask(h, s) == CHOOSE t \in h.swt[s] : TRUE

\* TaskInput.tasks, SubWorkflowOutput.tasks
tasks(h, s) ==
    IF s \in Boundaries THEN {BoundaryTask(h, s)}
    ELSE IF h.swt[s] # {} THEN h.swt[s]
    ELSE {InfoTask[i] : i \in h.ti[s]}

\* Slots reachable from s through downstream_inputs (s included).
RECURSIVE ReachFrom(_, _, _)
ReachFrom(h, frontier, seen) ==
    IF frontier \subseteq seen THEN seen
    ELSE ReachFrom(h, UNION {h.di[s] : s \in frontier}, seen \cup frontier)

Reach(h, s) == ReachFrom(h, {s}, {})

\* ------------------------------------------------------------------------
\* connect
\* ------------------------------------------------------------------------

\* Variant of AddInfo: the TargetInfo also reaches the slots self was
\* registered under.
AddInfoUpstream(h, self, info) ==
    [h EXCEPT !.ti = [s \in Slots |->
        IF s = self \/ s \in h.di[self] \/ self \in h.di[s]
        THEN h.ti[s] \cup {info} ELSE h.ti[s]]]

\* Variant of AddInfo: the TargetInfo reaches every slot below self.
AddInfoTransitive(h, self, info) ==
    [h EXCEPT !.ti = [s \in Slots |->
        IF s \in Reach(h, self) THEN h.ti[s] \cup {info} ELSE h.ti[s]]]

\* TaskInput.connect, the TargetInfo branch: add to self and to the slots
\* directly in self.downstream_inputs.
AddInfo(h, self, info) ==
    [h EXCEPT !.ti = [s \in Slots |->
        IF s = self \/ s \in h.di[self] THEN h.ti[s] \cup {info} ELSE h.ti[s]]]

\* SubWorkflowOutput.connect, recording the requirement of a non-list item:
\* connection.tasks when the item has that attribute, else connection.task.
RecordReqs(h, self, c) ==
    IF c.kind = "slot"
    THEN [h EXCEPT !.reqs[self] = @ \cup tasks(h, c.id)]
    ELSE [h EXCEPT !.reqs[self] = @ \cup {InfoTask[c.id]}]

\* Variant of RegisterDownstream: the registration goes both ways.
RegisterBothWays(h, self, conn) ==
    [h EXCEPT !.di[conn] = @ \cup {self}, !.di[self] = @ \cup {conn}]

\* Variant of RegisterDownstream: self is not registered.
RegisterNothing(h, self, conn) == h

\* TaskInput.connect, the TaskInput branch: self is registered downstream of
\* connection.
RegisterDownstream(h, self, conn) ==
    [h EXCEPT !.di[conn] = @ \cup {self}]

\* Variant of NoteSubWorkflowTask: the sub-workflow task is not noted.
NoteNothing(h, self, conn) == h

\* TaskInput.connect, the TaskInput branch: note the sub-workflow task when a
\* SubWorkflowOutput is connected into a plain TaskInput.
NoteSubWorkflowTask(h, self, conn) ==
    IF conn \in Boundaries /\ self \notin Boundaries
    THEN [h EXCEPT !.swt[self] = @ \cup {BoundaryTask(h, conn)}]
    ELSE h

\* Python values: a TargetInfo, a TaskInput, a list, a dict (its values in
\* iteration order), a zero-argument callable (items = <<what it returns>>),
\* and any other object.
InfoVal(a) == [kind |-> "info", id |-> a, items |-> <<>>]
SlotVal(s) == [kind |-> "slot", id |-> s, items |-> <<>>]
ListVal(items) == [kind |-> "list", id |-> "-", items |-> items]
DictVal(items) == [kind |-> "dict", id |-> "-", items |-> items]
CallableVal(v) == [kind |-> "callable", id |-> "-", items |-> <<v>>]
OtherVal == [kind |-> "other", id |-> "-", items |-> <<>>]

RECURSIVE connect(_, _, _), ConnectEachInfo(_, _, _), ConnectEachDownstream(_, _, _)

\* for info in connection.target_infos: self.connect(info)
ConnectEachInfo(h, self, todo) ==
    IF todo = {} THEN h
    ELSE LET i == CHOOSE x \in todo : TRUE
         IN ConnectEachInfo(connect(h, self, InfoVal(i)), self, todo \ {i})

\* Variant of ConnectEachDownstream: no connection of the downstream inputs.
SkipDownstream(h, todo, conn) == h

\* for downstream_input in self.downstream_inputs: downstream_input.connect(connection)
ConnectEachDownstream(h, todo, conn) ==
    IF todo = {} THEN h
    ELSE LET d == CHOOSE x \in todo : TRUE
         IN ConnectEachDownstream(connect(h, d, SlotVal(conn)), todo \ {d}, conn)

\* self.connect(c) for a TargetInfo or a TaskInput c, dispatched on the class
\* of self: SubWorkflowOutput.connect records the requirement and then runs
\* TaskInput.connect.
connect(h, self, c) ==
    LET h0 == IF self \in Boundaries THEN RecordReqs(h, self, c) ELSE h
    IN IF c.kind = "info"
       THEN AddInfo(h0, self, c.id)
       ELSE LET h1 == ConnectEachInfo(h0, self, h0.ti[c.id])
                h2 == RegisterDownstream(h1, self, c.id)
                h3 == NoteSubWorkflowTask(h2, self, c.id)
            IN ConnectEachDownstream(h3, h3.di[self], c.id)

\* connect(list): each item in order.
RECURSIVE ConnectList(_, _, _)
ConnectList(h, self, items) ==
    IF items = <<>> THEN h
    ELSE ConnectList(connect(h, self, Head(items)), self, Tail(items))

\* A connection keeps the slot graph acyclic: the connected slot is neither
\* self nor downstream of self.
Acyclic(h, self, c) == c.kind = "slot" => c.id \notin Reach(h, self)

\* ------------------------------------------------------------------------
\* disconnect and the singular accessors
\* ------------------------------------------------------------------------

Ok(v) == [ok |-> TRUE, val |-> v]
Raise(e) == [ok |-> FALSE, val |-> e]

\* The one element of a set of size one.
TheOne(S) == CHOOSE x \in S : TRUE

\* Variant of disconnect: the TargetInfo is also taken from the downstream
\* inputs that received it.
DisconnectCascading(h, self, info) ==
    [h EXCEPT !.ti = [s \in Slots |->
        IF s \in Reach(h, self) THEN h.ti[s] \ {info} ELSE h.ti[s]]]

\* TaskInput.disconnect: set.remove
disconnect(h, self, info) == [h EXCEPT !.ti[self] = @ \ {info}]

\* TaskInput.target
target(h, s) ==
    IF Cardinality(targets(h, s)) = 1 THEN Ok(TheOne(targets(h, s))) ELSE Raise("ValueError")

\* Variant of path: decided by the number of connected TargetInfos.
PathByCount(h, s) ==
    IF Cardinality(h.ti[s]) = 1 THEN Ok(TheOne(paths(h, s))) ELSE Raise("ValueError")

\* TaskInput.path
path(h, s) ==
    IF Cardinality(paths(h, s)) = 1 THEN Ok(TheOne(paths(h, s))) ELSE Raise("ValueError")

\* TaskInput.task, SubWorkflowOutput.task
task(h, s) ==
    IF s \in Boundaries THEN Ok(BoundaryTask(h, s))
    ELSE IF Cardinality(tasks(h, s)) = 1 THEN Ok(TheOne(tasks(h, s)))
    ELSE Raise("ValueError")

\* TaskInput.task pops from the set self.tasks returned: _sub_workflow_tasks
\* itself when it is non-empty, a fresh set otherwise.
TaskPop(h, s) ==
    IF s \notin Boundaries /\ h.swt[s] # {} /\ Cardinality(h.swt[s]) = 1
    THEN [h EXCEPT !.swt[s] = {}]
    ELSE h

\* ------------------------------------------------------------------------
\* Tasks and their attributes
\* ------------------------------------------------------------------------

\* An instance attribute: the prefix of its name ("in" for in_*, "out" for
\* out_*), its value, and whether the class defines a property of that name.
In(v) == [prefix |-> "in", val |-> v, prop |-> FALSE]
Out(v) == [prefix |-> "out", val |-> v, prop |-> FALSE]

\* P1, P2 and O mix in DependencyHelpers only; T is a SubWorkflowTask and W a
\* WorkflowTask.
Tasks == {"P1", "P2", "O", "T", "W"}
Orchestrating == {"T", "W"}

\* The wired workflow: X is the output slot of P1, Y and Z are inputs of O
\* (Z behind a callable), S is the boundary T and W declare as output.
WiredDict ==
    [t \in Tasks |->
        CASE t = "P1" -> <<Out(SlotVal("X"))>>
          [] t = "P2" -> <<>>
          [] t = "O" -> <<In(SlotVal("Y")), In(CallableVal(SlotVal("Z"))),
                          Out(CallableVal(InfoVal("a2")))>>
          [] t = "T" -> <<In(SlotVal("X")), Out(DictVal(<<SlotVal("S")>>))>>
          [] OTHER -> <<In(SlotVal("Y")), Out(ListVal(<<SlotVal("S")>>))>>]

\* A set as a sequence, in some iteration order.
RECURSIVE SetToSeq(_)
SetToSeq(S) ==
    IF S = {} THEN <<>>
    ELSE LET x == CHOOSE y \in S : TRUE IN <<x>> \o SetToSeq(S \ {x})

Range(q) == {q[k] : k \in 1..Len(q)}

\* DependencyHelpers.get_input_attrs
RECURSIVE get_input_attrs(_)
get_input_attrs(d) ==
    IF d = <<>> THEN <<>>
    ELSE (IF Head(d).prefix = "in" THEN <<Head(d).val>> ELSE <<>>) \o get_input_attrs(Tail(d))

\* Variant of parse_inputitem: a callable is not called.
ParseInputNoCall(h, val, acc) ==
    IF val.kind = "slot" THEN Ok(acc \o SetToSeq(tasks(h, val.id))) ELSE Raise("Exception")

\* Variant of parse_inputitem: a value that is no TaskInput is skipped.
ParseInputSkipping(h, val, acc) ==
    LET v == IF val.kind = "callable" THEN val.items[1] ELSE val
    IN IF v.kind = "slot" THEN Ok(acc \o SetToSeq(tasks(h, v.id))) ELSE Ok(acc)

\* DependencyHelpers._parse_inputitem
parse_inputitem(h, val, acc) ==
    LET v == IF val.kind = "callable" THEN val.items[1] ELSE val
    IN IF v.kind = "slot" THEN Ok(acc \o SetToSeq(tasks(h, v.id))) ELSE Raise("Exception")

\* DependencyHelpers._upstream_tasks: the loop over the input attributes;
\* an exception of _parse_inputitem leaves the method.
RECURSIVE UpstreamLoop(_, _, _)
UpstreamLoop(h, attrs, acc) ==
    IF attrs = <<>> THEN Ok(acc)
    ELSE LET r == parse_inputitem(h, Head(attrs), acc)
         IN IF r.ok THEN UpstreamLoop(h, Tail(attrs), r.val) ELSE r

upstream_tasks(h, d) == UpstreamLoop(h, get_input_attrs(d), <<>>)

\* DependencyHelpers.get_output_attrs
RECURSIVE get_output_attrs(_)
get_output_attrs(d) ==
    IF d = <<>> THEN <<>>
    ELSE LET a == Head(d)
             here == IF a.prop \/ a.prefix # "out" THEN <<>>
                     ELSE IF a.val.kind \in {"dict", "list"} THEN a.val.items
                     ELSE <<a.val>>
         IN here \o get_output_attrs(Tail(d))

\* DependencyHelpers._parse_outputitem
RECURSIVE parse_outputitem(_, _, _), ParseOutputItems(_, _, _)
\* Variant of parse_outputitem: a dict is not walked.
ParseOutputNoDict(h, val, acc) ==
    LET v == IF val.kind = "callable" THEN val.items[1] ELSE val
    IN CASE v.kind = "info" -> Ok(acc \o <<v.id>>)
         [] v.kind = "slot" -> Ok(acc \o SetToSeq(h.ti[v.id]))
         [] v.kind = "list" -> ParseOutputItems(h, v.items, acc)
         [] OTHER -> Raise("Exception")

parse_outputitem(h, val, acc) ==
    LET v == IF val.kind = "callable" THEN val.items[1] ELSE val
    IN CASE v.kind = "info" -> Ok(acc \o <<v.id>>)
         [] v.kind = "slot" -> Ok(acc \o SetToSeq(h.ti[v.id]))
         [] v.kind \in {"list", "dict"} -> ParseOutputItems(h, v.items, acc)
         [] OTHER -> Raise("Exception")

ParseOutputItems(h, items, acc) ==
    IF items = <<>> THEN Ok(acc)
    ELSE LET r == parse_outputitem(h, Head(items), acc)
         IN IF r.ok THEN ParseOutputItems(h, Tail(items), r.val) ELSE r

\* DependencyHelpers._output_infos
output_infos(h, d) == ParseOutputItems(h, get_output_attrs(d), <<>>)

\* DependencyHelpers._output_targets, output
output_targets(h, d) ==
    LET r == output_infos(h, d)
    IN IF r.ok THEN Ok([k \in 1..Len(r.val) |-> InfoTarget[r.val[k]]]) ELSE r

\* SubWorkflowTask.requires, WorkflowTask.requires: sub_workflow_reqs of each
\* output attribute; only a SubWorkflowOutput has that field.
sub_workflow_requires(h, d) ==
    LET outs == get_output_attrs(d)
    IN IF \A k \in 1..Len(outs) : outs[k].kind = "slot" /\ outs[k].id \in Boundaries
       THEN Ok([k \in 1..Len(outs) |-> h.reqs[outs[k].id]])
       ELSE Raise("AttributeError")

\* Variant of requires: every task answers from its input attributes.
RequiresFromInputs(h, t, d) == upstream_tasks(h, d)

\* requires() as luigi calls it on task t
requires(h, t, d) ==
    IF t \in Orchestrating THEN sub_workflow_requires(h, d) ELSE upstream_tasks(h, d)

\* ------------------------------------------------------------------------
\* State machine
\* ------------------------------------------------------------------------

NoCall == [op |-> "init", self |-> "-", arg |-> "-", res |-> Ok("-")]

\* No orchestrating task is being configured.
NoConfig == [task |-> "-", overrides |-> {}, pc |-> "-", ran |-> <<>>, err |-> "-"]

Call(op, self, arg, res) == [op |-> op, self |-> self, arg |-> arg, res |-> res]

SetHeap(h) ==
    /\ target_infos' = h.ti
    /\ downstream_inputs' = h.di
    /\ sub_workflow_tasks' = h.swt
    /\ sub_workflow_reqs' = h.reqs

HeapIs(h) ==
    /\ target_infos = h.ti
    /\ downstream_inputs = h.di
    /\ sub_workflow_tasks = h.swt
    /\ sub_workflow_reqs = h.reqs

heap_vars == <<target_infos, downstream_inputs, sub_workflow_tasks, sub_workflow_reqs>>

\* The lists passed to connect: two distinct items.
Atoms == {InfoVal(a) : a \in WiredInfos} \cup {SlotVal(s) : s \in WiredSlots}
Lists == {<<x, y>> : x \in Atoms, y \in Atoms} \ {<<x, x>> : x \in Atoms}

\* self.connect(info) for a TargetInfo
ConnectInfoCall(self, a, bound) ==
    /\ ncalls < bound
    /\ SetHeap(connect(Heap, self, InfoVal(a)))
    /\ ncalls' = ncalls + 1
    /\ last' = Call("connect_info", self, a, Ok("-"))
    /\ UNCHANGED <<task_dict, config, stack>>

\* self.connect(other) for a TaskInput
ConnectSlotCall(self, c, bound) ==
    /\ ncalls < bound
    /\ Acyclic(Heap, self, SlotVal(c))
    /\ SetHeap(connect(Heap, self, SlotVal(c)))
    /\ ncalls' = ncalls + 1
    /\ last' = Call("connect_slot", self, c, Ok("-"))
    /\ UNCHANGED <<task_dict, config, stack>>

\* self.disconnect(info); removing an absent TargetInfo raises KeyError
DisconnectCall(self, a, bound) ==
    /\ ncalls < bound
    /\ ncalls' = ncalls + 1
    /\ IF a \in target_infos[self]
       THEN /\ SetHeap(disconnect(Heap, self, a))
            /\ last' = Call("disconnect", self, a, Ok("-"))
       ELSE /\ SetHeap(Heap)
            /\ last' = Call("disconnect", self, a, Raise("KeyError"))
    /\ UNCHANGED <<task_dict, config, stack, edges, asym>>

\* reading self.task
ReadTaskCall(self) ==
    /\ last' = Call("task", self, "-", task(Heap, self))
    /\ SetHeap(TaskPop(Heap, self))
    /\ UNCHANGED <<task_dict, config, stack, ncalls, edges, asym>>

ConnectInfo ==
    \E self \in WiredSlots, a \in WiredInfos :
        ConnectInfoCall(self, a, MaxCalls) /\ UNCHANGED <<edges, asym>>

ConnectSlot ==
    \E self \in WiredSlots, c \in WiredSlots :
        ConnectSlotCall(self, c, MaxCalls) /\ UNCHANGED <<edges, asym>>

\* self.connect([...]): one connect per item
ConnectListOp ==
    \E self \in WiredSlots, items \in Lists :
        /\ ncalls + Len(items) <= MaxCalls
        /\ \A k \in 1..Len(items) : Acyclic(Heap, self, items[k])
        /\ SetHeap(ConnectList(Heap, self, items))
        /\ ncalls' = ncalls + Len(items)
        /\ last' = Call("connect_list", self, items, Ok("-"))
        /\ UNCHANGED <<task_dict, config, stack, edges, asym>>

ReadTask == \E self \in WiredSlots : ReadTaskCall(self)

\* The tasks luigi queries: those that declare attributes.
Queried == {"P1", "O", "T", "W"}

\* Variant of Requires: the query reads the singular task of each input, which
\* empties the _sub_workflow_tasks of the plain slots.
RequiresPopping ==
    \E t \in Queried :
        /\ last' = Call("requires", t, "-", requires(Heap, t, task_dict[t]))
        /\ SetHeap([Heap EXCEPT !.swt =
               [s \in Slots |-> IF s \in Boundaries THEN Heap.swt[s] ELSE {}]])
        /\ UNCHANGED <<task_dict, config, stack, ncalls, edges, asym>>

\* t.requires()
Requires ==
    \E t \in Queried :
        /\ last' = Call("requires", t, "-", requires(Heap, t, task_dict[t]))
        /\ UNCHANGED <<heap_vars, task_dict, config, stack, ncalls, edges, asym>>

\* t.output()
Output ==
    \E t \in Queried :
        /\ last' = Call("output", t, "-", output_targets(Heap, task_dict[t]))
        /\ UNCHANGED <<heap_vars, task_dict, config, stack, ncalls, edges, asym>>

Init ==
    /\ HeapIs(EmptyHeap)
    /\ task_dict = WiredDict
    /\ ncalls = 0
    /\ last = NoCall
    /\ edges = {}
    /\ asym = FALSE
    /\ config = NoConfig
    /\ stack = <<>>

Next ==
    \/ ConnectInfo
    \/ ConnectSlot
    \/ ConnectListOp
    \/ ReadTask
    \/ Requires
    \/ Output

Spec == Init /\ [][Next]_vars

\* ------------------------------------------------------------------------
\* Wiring with the declared connections recorded
\* ------------------------------------------------------------------------

WireInfo ==
    \E self \in WiredSlots, a \in WiredInfos :
        /\ ConnectInfoCall(self, a, MaxWire)
        /\ edges' = edges \cup {<<a, self>>}
        /\ asym' = (asym \/ downstream_inputs[self] # {})

WireSlot ==
    \E self \in WiredSlots, c \in WiredSlots :
        /\ ConnectSlotCall(self, c, MaxWire)
        /\ edges' = edges \cup {<<c, self>>}
        /\ UNCHANGED asym

NextWire == WireInfo \/ WireSlot

SpecWire == Init /\ [][NextWire]_vars

\* ------------------------------------------------------------------------
\* A sub-workflow nested in another: the boundary S2 of T2 feeds the boundary
\* S of T, directly or through the plain slot Y
\* ------------------------------------------------------------------------

NestSlots == {"Y", "S", "S2"}

NestConnectInfo ==
    \E self \in NestSlots, a \in WiredInfos :
        ConnectInfoCall(self, a, MaxCalls) /\ UNCHANGED <<edges, asym>>

NestConnectSlot ==
    \E self \in NestSlots, c \in NestSlots :
        ConnectSlotCall(self, c, MaxCalls) /\ UNCHANGED <<edges, asym>>

NextNest == NestConnectInfo \/ NestConnectSlot

SpecNest == Init /\ [][NextNest]_vars

\* ------------------------------------------------------------------------
\* Configuration of an orchestrating task: SubWorkflowTask.__init__ ("T") and
\* WorkflowTask.configure_instance ("W")
\* ------------------------------------------------------------------------

\* The phases in the order the code calls them.
Phases == <<"initialize_tasks", "initialize_inputs_and_outputs", "connect_tasks">>

\* The phase methods a subclass may override.
Overridable == {"initialize_tasks", "connect_tasks"}

\* Variant of initialize_tasks: the base method does nothing.
InitializeTasksPass(overridden) == Ok("-")

\* initialize_tasks: the base method raises, an override returns.
initialize_tasks(overridden) ==
    IF overridden THEN Ok("-") ELSE Raise("NotImplementedError")

\* Task.initialize_inputs_and_outputs: creates the task's own slots.
initialize_inputs_and_outputs == Ok("-")

\* connect_tasks: the base method raises, an override issues connect calls.
connect_tasks(overridden) ==
    IF overridden THEN Ok("-") ELSE Raise("NotImplementedError")

\* The configuration after the call of phase p returned or raised res: an
\* exception propagates out of __init__ / configure_instance.
AfterPhase(p, res, next) ==
    [config EXCEPT !.ran = Append(@, p),
                   !.pc = IF res.ok THEN next ELSE "failed",
                   !.err = IF res.ok THEN @ ELSE res.val]

ConfigFrame == <<heap_vars, task_dict, ncalls, last, edges, asym, stack>>

\* self.initialize_tasks()
CallInitializeTasks ==
    /\ config.pc = "initialize_tasks"
    /\ config' = AfterPhase("initialize_tasks",
                            initialize_tasks("initialize_tasks" \in config.overrides),
                            "initialize_inputs_and_outputs")
    /\ UNCHANGED ConfigFrame

\* self.initialize_inputs_and_outputs()
CallInitializeInputsAndOutputs ==
    /\ config.pc = "initialize_inputs_and_outputs"
    /\ config' = AfterPhase("initialize_inputs_and_outputs",
                            initialize_inputs_and_outputs, "connect_tasks")
    /\ UNCHANGED ConfigFrame

\* self.connect_tasks(): the base method raises, an override starts running.
CallConnectTasks ==
    /\ config.pc = "connect_tasks"
    /\ config' = AfterPhase("connect_tasks",
                            connect_tasks("connect_tasks" \in config.overrides),
                            "in_connect_tasks")
    /\ UNCHANGED ConfigFrame

\* The connect calls an overriding connect_tasks issues.
ConfigSlots == {"X", "S"}

ConfigConnectInfo ==
    /\ config.pc = "in_connect_tasks"
    /\ \E self \in ConfigSlots, a \in WiredInfos :
           ConnectInfoCall(self, a, MaxCalls) /\ UNCHANGED <<edges, asym>>

ConfigConnectSlot ==
    /\ config.pc = "in_connect_tasks"
    /\ \E self \in ConfigSlots, c \in ConfigSlots :
           ConnectSlotCall(self, c, MaxCalls) /\ UNCHANGED <<edges, asym>>

\* connect_tasks returns and with it __init__ / configure_instance.
ReturnConnectTasks ==
    /\ config.pc = "in_connect_tasks"
    /\ config' = [config EXCEPT !.pc = "configured"]
    /\ UNCHANGED ConfigFrame

\* requires() and output() of the configured task.
ConfigRequires ==
    /\ config.pc = "configured"
    /\ last' = Call("requires", config.task, "-",
                    requires(Heap, config.task, task_dict[config.task]))
    /\ UNCHANGED <<heap_vars, task_dict, config, stack, ncalls, edges, asym>>

ConfigOutput ==
    /\ config.pc = "configured"
    /\ last' = Call("output", config.task, "-",
                    output_targets(Heap, task_dict[config.task]))
    /\ UNCHANGED <<heap_vars, task_dict, config, stack, ncalls, edges, asym>>

InitConfig ==
    /\ HeapIs(EmptyHeap)
    /\ task_dict = WiredDict
    /\ ncalls = 0
    /\ last = NoCall
    /\ edges = {}
    /\ asym = FALSE
    /\ stack = <<>>
    /\ \E t \in Orchestrating, o \in SUBSET Overridable :
           config = [NoConfig EXCEPT !.task = t, !.overrides = o,
                                     !.pc = "initialize_tasks"]

NextConfig ==
    \/ CallInitializeTasks
    \/ CallInitializeInputsAndOutputs
    \/ CallConnectTasks
    \/ ConfigConnectInfo
    \/ ConfigConnectSlot
    \/ ReturnConnectTasks
    \/ ConfigRequires
    \/ ConfigOutput

SpecConfig == InitConfig /\ [][NextConfig]_vars

\* ------------------------------------------------------------------------
\* connect of a TaskInput, one loop iteration at a time.  A frame is a call
\* self.connect(c) in progress: h0 is the heap when it was called, pc the
\* loop it is in ("infos": for info in connection.target_infos, "down": for
\* downstream_input in self.downstream_inputs), snap the set as it was when
\* the loop started and seen the elements already visited.
\* ------------------------------------------------------------------------

MaxStep == 3

Top(s) == s[Len(s)]
Pop(s) == SubSeq(s, 1, Len(s) - 1)

\* The set a frame is iterating, as it is now.
LiveSet(h, f) == IF f.pc = "infos" THEN h.ti[f.c] ELSE h.di[f.self]

\* Entry of self.connect(c) for a TaskInput c: SubWorkflowOutput.connect
\* records the requirement, then the loop over connection.target_infos starts.
EnterFrame(h, self, c) ==
    LET h1 == IF self \in Boundaries THEN RecordReqs(h, self, SlotVal(c)) ELSE h
    IN [heap |-> h1,
        frame |-> [self |-> self, c |-> c, h0 |-> h, pc |-> "infos",
                   snap |-> h1.ti[c], seen |-> {}]]

\* A top-level self.connect(info): no loop over a slot's own sets calls back.
StepConnectInfo ==
    /\ stack = <<>>
    /\ \E self \in WiredSlots, a \in WiredInfos :
           ConnectInfoCall(self, a, MaxStep) /\ UNCHANGED <<edges, asym>>

\* A top-level self.connect(c) is called.
StepCall ==
    /\ stack = <<>>
    /\ ncalls < MaxStep
    /\ \E self \in WiredSlots, c \in WiredSlots :
           /\ Acyclic(Heap, self, SlotVal(c))
           /\ LET e == EnterFrame(Heap, self, c)
              IN SetHeap(e.heap) /\ stack' = <<e.frame>>
           /\ last' = Call("call_connect", self, c, Ok("-"))
    /\ ncalls' = ncalls + 1
    /\ UNCHANGED <<task_dict, config, edges, asym>>

\* The innermost call finds the set it iterates changed: Python raises
\* RuntimeError, which unwinds every frame.
StepRaise(f) ==
    /\ stack' = <<>>
    /\ last' = Call("connect_slot", f.self, f.c, Raise("RuntimeError"))
    /\ SetHeap(Heap)

\* One iteration of for info in connection.target_infos: self.connect(info);
\* after the last one self is registered, the sub-workflow task is noted and
\* the loop over self.downstream_inputs starts.
StepInfos(f) ==
    IF f.seen = f.snap
    THEN LET h == NoteSubWorkflowTask(RegisterDownstream(Heap, f.self, f.c), f.self, f.c)
         IN /\ SetHeap(h)
            /\ stack' = [stack EXCEPT ![Len(stack)] =
                   [f EXCEPT !.pc = "down", !.snap = h.di[f.self], !.seen = {}]]
            /\ UNCHANGED last
    ELSE \E i \in f.snap \ f.seen :
            /\ SetHeap(connect(Heap, f.self, InfoVal(i)))
            /\ stack' = [stack EXCEPT ![Len(stack)] = [f EXCEPT !.seen = @ \cup {i}]]
            /\ UNCHANGED last

\* One iteration of for downstream_input in self.downstream_inputs:
\* downstream_input.connect(connection); after the last one the call returns.
StepDown(f) ==
    IF f.seen = f.snap
    THEN /\ stack' = Pop(stack)
         /\ last' = Call("connect_slot", f.self, f.c, Ok("-"))
         /\ SetHeap(Heap)
    ELSE \E d \in f.snap \ f.seen :
            LET e == EnterFrame(Heap, d, f.c)
            IN /\ SetHeap(e.heap)
               /\ stack' = Append([stack EXCEPT ![Len(stack)] =
                                       [f EXCEPT !.seen = @ \cup {d}]], e.frame)
               /\ UNCHANGED last

\* The innermost call takes its next step.
StepFrame ==
    /\ stack # <<>>
    /\ LET f == Top(stack)
       IN IF LiveSet(Heap, f) # f.snap THEN StepRaise(f)
          ELSE IF f.pc = "infos" THEN StepInfos(f)
          ELSE StepDown(f)
    /\ UNCHANGED <<task_dict, config, ncalls, edges, asym>>

NextStep == StepConnectInfo \/ StepCall \/ StepFrame

SpecStep == Init /\ [][NextStep]_vars /\ WF_vars(StepFrame)

\* ------------------------------------------------------------------------
\* The singular accessors on a plain slot and a boundary
\* ------------------------------------------------------------------------

ReadSlots == {"Y", "S"}

ReadConnectInfo ==
    \E self \in ReadSlots, a \in Infos :
        ConnectInfoCall(self, a, MaxCalls) /\ UNCHANGED <<edges, asym>>

ReadConnectSlot ==
    \E self \in ReadSlots, c \in ReadSlots :
        ConnectSlotCall(self, c, MaxCalls) /\ UNCHANGED <<edges, asym>>

ReadDisconnect == \E self \in ReadSlots, a \in Infos : DisconnectCall(self, a, MaxCalls)

\* reading self.target
ReadTarget ==
    \E self \in ReadSlots :
        /\ last' = Call("target", self, "-", target(Heap, self))
        /\ UNCHANGED <<heap_vars, task_dict, config, stack, ncalls, edges, asym>>

\* reading self.path
ReadPath ==
    \E self \in ReadSlots :
        /\ last' = Call("path", self, "-", path(Heap, self))
        /\ UNCHANGED <<heap_vars, task_dict, config, stack, ncalls, edges, asym>>

ReadTaskOf == \E self \in ReadSlots : ReadTaskCall(self)

NextRead ==
    \/ ReadConnectInfo
    \/ ReadConnectSlot
    \/ ReadDisconnect
    \/ ReadTarget
    \/ ReadPath
    \/ ReadTaskOf

SpecRead == Init /\ [][NextRead]_vars

\* ------------------------------------------------------------------------
\* The queries on attribute values of every shape
\* ------------------------------------------------------------------------

\* Nesting depth of the attribute values.
MaxDepth == 2

Leaves == {SlotVal("X"), InfoVal("a1"), InfoVal("a2"), InfoVal("a3"), OtherVal}

\* Values nested up to depth n: lists and dicts of two items, callables.
RECURSIVE Shapes(_)
Shapes(n) ==
    IF n = 0 THEN Leaves
    ELSE LET below == Shapes(n - 1)
         IN below
            \cup {ListVal(<<v, w>>) : v \in below, w \in Leaves}
            \cup {DictVal(<<w, v>>) : v \in below, w \in Leaves}
            \cup {CallableVal(v) : v \in below}

\* Task O with one more input attribute and one output attribute of value v.
ShapedDict(v) ==
    [WiredDict EXCEPT !["O"] = <<In(SlotVal("Y")), In(v), Out(v)>>]

\* Wirings the construction phase can have left behind.
Wirings ==
    { EmptyHeap,
      connect(connect(EmptyHeap, "X", InfoVal("a1")), "Y", SlotVal("X")),
      connect(ConnectList(EmptyHeap, "X", <<InfoVal("a2"), InfoVal("a3")>>), "Y", InfoVal("a1")),
      connect(connect(EmptyHeap, "S", InfoVal("a1")), "Y", SlotVal("S")) }

InitQuery ==
    /\ \E h \in Wirings : HeapIs(h)
    /\ \E v \in Shapes(MaxDepth) : task_dict = ShapedDict(v)
    /\ ncalls = 0
    /\ last = NoCall
    /\ edges = {}
    /\ asym = FALSE
    /\ config = NoConfig
    /\ stack = <<>>

NextQuery == Requires \/ Output

SpecQuery == InitQuery /\ [][NextQuery]_vars

\* ------------------------------------------------------------------------
\* Properties of the wiring
\* ------------------------------------------------------------------------

\* The slots from which the connections e lead to a slot of the frontier.
RECURSIVE UpstreamOf(_, _, _)
UpstreamOf(e, frontier, seen) ==
    IF frontier \subseteq seen THEN seen
    ELSE UpstreamOf(e, {c \in Slots : \E s \in frontier : <<c, s>> \in e}, seen \cup frontier)

\* The TargetInfos the connections e declare on s or on a slot upstream of s.
UpstreamArtifacts(e, s) ==
    {a \in Infos : \E u \in UpstreamOf(e, {s}, {}) : <<a, u>> \in e}

\* C1: whatever the order of the connect calls declaring an acyclic set of
\* connections, as long as no TargetInfo was connected to a slot that
\* already had downstream slots, every slot holds exactly the TargetInfos
\* declared on itself and on the slots transitively upstream of it.
C1_OrderIndependentWiring ==
    ~asym => \A s \in Slots : target_infos[s] = UpstreamArtifacts(edges, s)

\* C1 witness: Y.connect(X) issued last, after Z.connect(Y) and after a1 was
\* connected to X; Z holds a1 by retroactive propagation.
C1_Witness ==
    /\ ~asym
    /\ last.op = "connect_slot" /\ last.self = "Y" /\ last.arg = "X"
    /\ {<<"a1", "X">>, <<"Y", "Z">>, <<"X", "Y">>} \subseteq edges
    /\ "a1" \in target_infos["Z"]

\* C2: after Y.connect(X) for a slot X, Y holds every TargetInfo of X, and so
\* does every slot Z reachable from Y through downstream_inputs; Y and each
\* such Z are registered in X.downstream_inputs.  (The call changes neither
\* X.target_infos nor the downstream_inputs of Y and of the slots below it,
\* so both read the same before and after the call.)
C2_SlotConnectPropagates ==
    last.op = "connect_slot" =>
        \A z \in Reach(Heap, last.self) :
            /\ target_infos[last.arg] \subseteq target_infos[z]
            /\ z \in downstream_inputs[last.arg]

\* C2 witness: X holds a1 and a2, Z was downstream of Y, then Y.connect(X).
C2_Witness ==
    /\ last.op = "connect_slot" /\ last.self = "Y" /\ last.arg = "X"
    /\ target_infos["X"] = {"a1", "a2"}
    /\ "Z" \in downstream_inputs["Y"]
    /\ target_infos["Z"] = {"a1", "a2"}
    /\ {"Y", "Z"} \subseteq downstream_inputs["X"]

\* C3: A.connect(a) for a TargetInfo a adds a to A.target_infos and to the
\* target_infos of exactly the slots in A.downstream_inputs at the time of
\* the call; every other slot, also one further down the chain, keeps its
\* target_infos.
C3_InfoConnectOneLevel ==
    [][last'.op = "connect_info" =>
          target_infos' = [s \in Slots |->
              IF s = last'.self \/ s \in downstream_inputs[last'.self]
              THEN target_infos[s] \cup {last'.arg}
              ELSE target_infos[s]]]_vars

\* C3 witness: Y is downstream of X and Z downstream of Y only; a1 connected
\* to X reached Y and not Z.
C3_Witness ==
    /\ last.op = "connect_info" /\ last.self = "X" /\ last.arg = "a1"
    /\ downstream_inputs["X"] = {"Y"}
    /\ "Z" \in downstream_inputs["Y"]
    /\ "a1" \in target_infos["Y"]
    /\ "a1" \notin target_infos["Z"]

\* ------------------------------------------------------------------------
\* Properties of the task views and of requires()
\* ------------------------------------------------------------------------

\* The tasks view of a slot, from its fields: _sub_workflow_tasks when it is
\* not empty, else the tasks of the connected TargetInfos.
TasksView(s) ==
    IF sub_workflow_tasks[s] # {} THEN sub_workflow_tasks[s]
    ELSE {InfoTask[a] : a \in target_infos[s]}

\* The slots behind the input attributes of O: in_y is Y, in_z returns Z.
InputSlotsOfO == {"Y", "Z"}

\* The tasks inside the sub-workflow of T: the producers of the TargetInfos.
InternalTasks == {InfoTask[a] : a \in Infos}

\* C4: right after T's SubWorkflowOutput is connected into an input slot of
\* the outer task O, O.requires() contains T, and contains a task internal
\* to T only if O's other input slot brings it: the connected slot stands
\* for T alone, whatever TargetInfos it holds.
C4_BoundaryHidesInternals ==
    (last.op = "connect_slot" /\ last.arg \in Boundaries /\ last.self \in InputSlotsOfO) =>
        LET q == requires(Heap, "O", task_dict["O"])
        IN /\ q.ok
           /\ BoundaryOwner[last.arg] \in Range(q.val)
           /\ \A p \in Range(q.val) \cap InternalTasks :
                  \E s \in InputSlotsOfO \ {last.self} : p \in TasksView(s)

\* C4 witness: S holds a1, produced by the internal task P1; after
\* Y.connect(S) the slot Y holds a1 and O requires exactly T.
C4_Witness ==
    /\ last.op = "connect_slot" /\ last.self = "Y" /\ last.arg = "S"
    /\ "a1" \in target_infos["Y"]
    /\ Range(requires(Heap, "O", task_dict["O"]).val) = {"T"}

\* C5: with a1 connected to the boundary S, Y wired to S and Z wired to Y, in
\* whatever order and with no other connection, Z reports {T} as its tasks.
C5_TasksOrderIndependent ==
    edges = {<<"a1", "S">>, <<"S", "Y">>, <<"Y", "Z">>} => TasksView("Z") = {"T"}

\* C6: O.requires() returns the union of the tasks views of the slots behind
\* its input attributes (one of them behind a callable); a task without
\* input attributes requires nothing.
C6_RequiresIsUnionOfTaskViews ==
    /\ (last.op = "requires" /\ last.self = "O") =>
           /\ last.res.ok
           /\ Range(last.res.val) = UNION {TasksView(s) : s \in InputSlotsOfO}
    /\ (last.op = "requires" /\ last.self = "P1") => last.res = Ok(<<>>)

\* C6 witness: a1 of P1 connected to P1's output slot X, O's input Y connected
\* to X: O requires exactly P1.
C6_Witness ==
    /\ last.op = "requires" /\ last.self = "O"
    /\ target_infos["X"] = {"a1"}
    /\ "Y" \in downstream_inputs["X"]
    /\ last.res = Ok(<<"P1">>)

\* C7: requires() of the SubWorkflowTask T and of the WorkflowTask W returns
\* the sub_workflow_reqs of the declared output boundary and nothing else,
\* whatever their input slots hold.
C7_OrchestratingRequiresBoundaryReqs ==
    (last.op = "requires" /\ last.self \in Orchestrating) =>
        last.res = Ok(<<sub_workflow_reqs["S"]>>)

\* C7 witness: S requires P1; T's input slot X holds a2 of P2, which
\* T.requires() does not return.
C7_Witness ==
    /\ last.op = "requires" /\ last.self = "T"
    /\ last.res = Ok(<<{"P1"}>>)
    /\ TasksView("X") = {"P2"}

\* ------------------------------------------------------------------------
\* Properties of the singular accessors
\* ------------------------------------------------------------------------

Accessors == {"target", "path", "task"}

Agree(f, S) == S # {} /\ \A i, j \in S : f[i] = f[j]

\* What reading an accessor of slot s returns in the current state.
AccessorResult(op, s) ==
    LET infos == target_infos[s]
        owners == sub_workflow_tasks[s]
    IN CASE op = "target" ->
              IF Cardinality(infos) = 1 THEN Ok(InfoTarget[TheOne(infos)])
              ELSE Raise("ValueError")
         [] op = "path" ->
              IF Agree(InfoPath, infos) THEN Ok(InfoPath[TheOne(infos)])
              ELSE Raise("ValueError")
         [] s \in Boundaries -> Ok(BoundaryOwner[s])
         [] owners # {} ->
              IF Cardinality(owners) = 1 THEN Ok(TheOne(owners)) ELSE Raise("ValueError")
         [] OTHER ->
              IF Agree(InfoTask, infos) THEN Ok(InfoTask[TheOne(infos)])
              ELSE Raise("ValueError")

InputValuesOfO ==
    {task_dict["O"][k].val : k \in {j \in 1..Len(task_dict["O"]) : task_dict["O"][j].prefix = "in"}}

OutputValueOfO == task_dict["O"][3].val

\* v is a TaskInput, or a callable returning one.
ResolvesToSlot(v) ==
    \/ v.kind = "slot"
    \/ v.kind = "callable" /\ v.items[1].kind = "slot"

RECURSIVE InfosIn(_)
InfosIn(v) ==
    CASE v.kind = "info" -> {v.id}
      [] v.kind = "slot" -> target_infos[v.id]
      [] v.kind = "other" -> {}
      [] OTHER -> UNION {InfosIn(v.items[k]) : k \in 1..Len(v.items)}

\* A value built of TargetInfos, TaskInputs, lists, dicts and callables that
\* return something not callable.
RECURSIVE WellFormed(_)
WellFormed(v) ==
    CASE v.kind \in {"info", "slot"} -> TRUE
      [] v.kind = "other" -> FALSE
      [] v.kind = "callable" -> v.items[1].kind # "callable" /\ WellFormed(v.items[1])
      [] OTHER -> \A k \in 1..Len(v.items) : WellFormed(v.items[k])

\* C10: O.output() returns the targets of exactly the TargetInfos reachable
\* from its output attribute, through lists and dicts at any depth, callables
\* and the TargetInfos connected to a slot; any other value makes it raise.
C10_OutputFlattens ==
    (last.op = "output" /\ last.self = "O") =>
        IF WellFormed(OutputValueOfO)
        THEN /\ last.res.ok
             /\ Range(last.res.val) = {InfoTarget[a] : a \in InfosIn(OutputValueOfO)}
        ELSE last.res = Raise("Exception")

\* C10 witness: the output attribute {a: a1, b: [a2, a3]} yields the three
\* targets.
C10_Witness ==
    /\ last.op = "output" /\ last.self = "O"
    /\ OutputValueOfO = DictVal(<<InfoVal("a1"), ListVal(<<InfoVal("a2"), InfoVal("a3")>>)>>)
    /\ Range(last.res.val) = {InfoTarget["a1"], InfoTarget["a2"], InfoTarget["a3"]}

\* ------------------------------------------------------------------------
\* C12: self.disconnect(info) removes info from self.target_infos and from
\* nothing else: the target_infos of every other slot, the downstream inputs
\* that received info by propagation included, and every downstream_inputs,
\* _sub_workflow_tasks and sub_workflow_reqs are left as they were.
\* ------------------------------------------------------------------------
C12_DisconnectIsLocal ==
    [][last'.op = "disconnect" =>
        /\ target_infos' =
             [target_infos EXCEPT ![last'.self] = @ \ {last'.arg}]
        /\ UNCHANGED <<downstream_inputs, sub_workflow_tasks, sub_workflow_reqs>>]_vars

\* S has lost a1 while its downstream input Y, which received a1 from S,
\* still holds it.
C12_Witness ==
    /\ last = Call("disconnect", "S", "a1", Ok("-"))
    /\ "Y" \in downstream_inputs["S"]
    /\ "a1" \in target_infos["Y"]
    /\ "a1" \notin target_infos["S"]

\* ------------------------------------------------------------------------
\* C14: reading a singular accessor never changes the slot: after reading
\* task on a plain slot whose _sub_workflow_tasks was populated by connecting
\* T's SubWorkflowOutput (the read returns T), _sub_workflow_tasks of that
\* slot still equals {T}.
\* ------------------------------------------------------------------------
C14_ReadingTaskKeepsOwner ==
    (last.op = "task" /\ last.self \in PlainSlots /\ last.res = Ok("T"))
        => sub_workflow_tasks[last.self] = {"T"}

\* ------------------------------------------------------------------------
\* C18: TargetInfos flow only downstream and connect is monotone. A call
\* self.connect(x) that keeps the slot graph acyclic removes no TargetInfo
\* from any slot; it changes target_infos (and _sub_workflow_tasks,
\* sub_workflow_reqs) only of self and of the slots reachable from self
\* through downstream_inputs, so not of x nor of any slot upstream of self;
\* and the only other state it changes is x.downstream_inputs, which gains
\* self and the slots transitively downstream of self.
\* ------------------------------------------------------------------------
C18_ConnectFlowsDownstream ==
    [][last'.op \in {"connect_info", "connect_slot"} =>
        LET self == last'.self
            down == Reach(Heap, self)
        IN /\ \A s \in Slots : target_infos[s] \subseteq target_infos'[s]
           /\ \A s \in Slots \ down :
                  /\ target_infos'[s] = target_infos[s]
                  /\ sub_workflow_tasks'[s] = sub_workflow_tasks[s]
           /\ \A b \in Boundaries \ down :
                  sub_workflow_reqs'[b] = sub_workflow_reqs[b]
           /\ downstream_inputs' =
                  IF last'.op = "connect_slot"
                  THEN [downstream_inputs EXCEPT ![last'.arg] = @ \cup down]
                  ELSE downstream_inputs]_vars

\* Y, fed by X and feeding Z, has just been connected to the boundary S: the
\* TargetInfo of S reached Y and Z and not X, and S gained Y and Z as
\* downstream inputs.
C18_Witness ==
    /\ last = Call("connect_slot", "Y", "S", Ok("-"))
    /\ "Y" \in downstream_inputs["X"]
    /\ "Z" \in downstream_inputs["Y"]
    /\ downstream_inputs["S"] = {"Y", "Z"}
    /\ target_infos["X"] = {}
    /\ target_infos["S"] = {"a2"}
    /\ target_infos["Y"] = {"a2"}
    /\ target_infos["Z"] = {"a2"}

\* ------------------------------------------------------------------------
\* C16: sub_workflow_reqs covers the TargetInfos that arrive later: with the
\* plain slot X connected to the boundary S and a1 (produced by P1) connected
\* to X, in either order and with nothing else connected, S holds a1 and
\* S.sub_workflow_reqs contains P1.
\* ------------------------------------------------------------------------
C16_ReqsCoverLateInfos ==
    edges = {<<"X", "S">>, <<"a1", "X">>} =>
        /\ "a1" \in target_infos["S"]
        /\ "P1" \in sub_workflow_reqs["S"]

\* ------------------------------------------------------------------------
\* C11: requires() and output() perform no mutation. Each invocation, at any
\* point of any interleaving with the other calls, leaves every slot's
\* target_infos, downstream_inputs, _sub_workflow_tasks and sub_workflow_reqs
\* and the task's attributes unchanged, and invoking the same query again
\* right after it returns what it returned.
\* ------------------------------------------------------------------------
C11_QueriesAreReadOnly ==
    [][last'.op \in {"requires", "output"} =>
        /\ UNCHANGED <<heap_vars, task_dict>>
        /\ last'.res =
             IF last'.op = "requires"
             THEN requires(Heap', last'.self, task_dict'[last'.self])
             ELSE output_targets(Heap', task_dict'[last'.self])]_vars

\* O.requires() has returned T, the task noted on O's input Y, and Y still
\* notes it.
C11_Witness ==
    /\ last = Call("requires", "O", "-", Ok(<<"T">>))
    /\ sub_workflow_tasks["Y"] = {"T"}
    /\ target_infos["Y"] # {}

\* ------------------------------------------------------------------------
\* C15: S.connect(x) on a SubWorkflowOutput S adds to S.sub_workflow_reqs
\* exactly x.tasks when x is a slot (plain or boundary) and exactly x.task
\* when x is a TargetInfo, and nothing else; so connecting a slot whose tasks
\* view is the sub-workflow task T2 adds T2 and none of the internal tasks
\* that produced its TargetInfos.
\* ------------------------------------------------------------------------
C15_ReqsGainExactlyTasksView ==
    [][(last'.op \in {"connect_info", "connect_slot"} /\ last'.self \in Boundaries) =>
        sub_workflow_reqs'[last'.self] =
            sub_workflow_reqs[last'.self] \cup
                (IF last'.op = "connect_slot"
                 THEN tasks(Heap, last'.arg)
                 ELSE {InfoTask[last'.arg]})]_vars

\* ------------------------------------------------------------------------
\* C13: configuring an orchestrating task calls initialize_tasks,
\* initialize_inputs_and_outputs and connect_tasks in that order, each once.
\* When initialize_tasks or connect_tasks is not overridden the configuration
\* fails with NotImplementedError at that phase and no later phase is called;
\* no connect call is issued before connect_tasks runs, and requires() and
\* output() are answered only by a configured task and never raise
\* NotImplementedError.
\* ------------------------------------------------------------------------
IsPrefix(p, q) == Len(p) <= Len(q) /\ \A k \in 1..Len(p) : p[k] = q[k]

FirstMissing ==
    IF "initialize_tasks" \notin config.overrides THEN "initialize_tasks"
    ELSE IF "connect_tasks" \notin config.overrides THEN "connect_tasks"
    ELSE "-"

C13_ThreePhasesInOrder ==
    /\ IsPrefix(config.ran, Phases)
    /\ config.pc \in {"in_connect_tasks", "configured"} =>
           config.ran = Phases /\ config.overrides = Overridable
    /\ config.pc \in {"initialize_inputs_and_outputs", "connect_tasks"} =>
           /\ Len(config.ran) >= 1
           /\ Phases[Len(config.ran) + 1] = config.pc
    /\ config.pc = "failed" =>
           /\ config.err = "NotImplementedError"
           /\ config.ran # <<>>
           /\ config.ran[Len(config.ran)] = FirstMissing
    /\ FirstMissing \in Range(config.ran) => config.pc = "failed"
    /\ config.pc \notin {"in_connect_tasks", "configured"} => HeapIs(EmptyHeap)
    /\ last.op \in {"requires", "output"} =>
           config.pc = "configured" /\ last.res # Raise("NotImplementedError")

\* The configuration failed at connect_tasks after the first two phases ran.
C13_Witness ==
    /\ config.pc = "failed"
    /\ config.ran = Phases
    /\ config.overrides = {"initialize_tasks"}

\* ------------------------------------------------------------------------
\* C17: every connect call that keeps the slot graph acyclic terminates.  The
\* calls nested through downstream_inputs are on pairwise distinct slots, none
\* of them the connected slot, so the recursion is no deeper than there are
\* slots; no loop finds the set it iterates modified; each call, when it
\* returns, has had the effect of connect on the heap it was called with; and
\* a call in progress always returns.
\* ------------------------------------------------------------------------
FramesDistinct ==
    \A j, k \in 1..Len(stack) :
        /\ stack[j].c = stack[1].c
        /\ stack[j].self # stack[j].c
        /\ j # k => stack[j].self # stack[k].self

IterationSafe ==
    /\ last.res # Raise("RuntimeError")
    /\ \A k \in 1..Len(stack) : LiveSet(Heap, stack[k]) = stack[k].snap

ReturnsConnect ==
    Len(stack') < Len(stack) =>
        Heap' = connect(Top(stack).h0, Top(stack).self, SlotVal(Top(stack).c))

C17_ConnectTerminates ==
    /\ [](FramesDistinct /\ IterationSafe)
    /\ [][ReturnsConnect]_vars
    /\ (stack # <<>>) ~> (stack = <<>>)

\* A call nested through downstream_inputs is in its loop over the connected
\* slot's TargetInfos and has passed one on.
C17_Witness ==
    /\ Len(stack) = 2
    /\ stack[2].pc = "infos"
    /\ stack[2].seen # {}
    /\ stack[2].self \in downstream_inputs[stack[1].self]

====
